---- MODULE Spec2Model ----
(***************************************************************************)
(* A model of src/traffic.py: a top-to-bottom script that loads a CSV of   *)
(* accident records, samples it, cleans it, derives Hour and DayOfWeek,    *)
(* computes five aggregations for charts and writes a heat map.            *)
(*                                                                         *)
(* A cell of a table is an option: Null (pandas NaN / NaT / None) or a     *)
(* one-element tuple <<v>>.  A row is a record of cells plus its index     *)
(* label "idx"; a DataFrame is a sequence of rows; a Series is a sequence  *)
(* of <<label, value>> pairs.                                              *)
(***************************************************************************)
EXTENDS Integers, Sequences, FiniteSets, TLC

VARIABLES disk, stdout, pc, bound, traceback, exit_code,
          df, df_sample, df_clean, figures, top_weather,
          road_features_df, heat_data

vars == <<disk, stdout, pc, bound, traceback, exit_code,
          df, df_sample, df_clean, figures, top_weather,
          road_features_df, heat_data>>

(* ------------------------------ bounds --------------------------------- *)

\* Longest CSV table on disk in Spec.
MaxRows == 3

\* Longest sample the cleaning and analysis steps are run on in SpecAnalysis.
MaxSample == 3

\* Longest sample of the weather family in SpecAnalysis (more than top_n
\* distinct conditions must fit).
MaxWeatherRows == 12

(* --------------------------- program constants ------------------------- *)

file_path == "US_Accidents_March23.csv"

map_filename == "accident_hotspots.html"

\* traffic.py:35 sets sample_size = 100000.  The model scales it to 2 so that
\* tables shorter than, as long as and longer than the sample size can all be
\* enumerated; nothing else in the script reads the number.
sample_size == 2

\* traffic.py:90, nlargest(10).
top_n == 10

columns_to_keep ==
    {"Start_Time", "Start_Lat", "Start_Lng", "Severity", "Weather_Condition",
     "Sunrise_Sunset", "Junction", "Crossing", "Traffic_Signal"}

dropna_subset ==
    {"Start_Time", "Start_Lat", "Start_Lng", "Weather_Condition", "Sunrise_Sunset"}

day_order ==
    <<"Monday", "Tuesday", "Wednesday", "Thursday", "Friday", "Saturday", "Sunday">>

road_features == <<"Junction", "Crossing", "Traffic_Signal">>

TITLE_HOUR == "Accidents by Hour of the Day"

TITLE_DAY == "Accidents by Day of the Week"

TITLE_WEATHER == "Top 10 Weather Conditions During Accidents"

TITLE_DAYNIGHT == "Accidents: Day vs. Night"

TITLE_ROAD == "Accidents by Road Feature"

(* ------------------------------- cells --------------------------------- *)

Null == <<>>

Some(v) == <<v>>

isnull(x) == x = Null

(* --------------------- pandas: datetime conversion --------------------- *)

\* A Start_Time string "YYYY-MM-DD HH:MM:SS" is modelled by its date, as days
\* since 1970-01-01, and its hour field as written.  A string whose hour field
\* is not an hour of the day does not parse.
\* pd.to_datetime(x, errors='coerce') on one cell: hours since the epoch, or
\* NaT for a null or unparseable cell.
to_datetime(x) ==
    IF isnull(x) THEN Null
    ELSE IF x[1].hh \in 0..23 /\ x[1].days >= 0
         THEN Some(x[1].days * 24 + x[1].hh)
         ELSE Null

\* Series.dt.hour on one cell: NaN for NaT.
dt_hour(t) == IF isnull(t) THEN Null ELSE Some(t[1] % 24)

\* pandas' weekday names, Monday first; 1970-01-01 was a Thursday.
dt_day_name(t) ==
    IF isnull(t) THEN Null
    ELSE Some(day_order[(((t[1] \div 24) + 3) % 7) + 1])

(* -------------------------- pandas: frames ----------------------------- *)

\* pd.read_csv: the rows of the file in order, labelled 0, 1, 2, ...
read_csv(table) == [i \in 1..Len(table) |-> table[i] @@ ("idx" :> i - 1)]

\* The index sequences DataFrame.sample(n, replace=False) can draw: n distinct
\* positions in any order.  random_state=42 fixes one of them per table
\* length; which one is numpy's business, so all are allowed.
SampleDraws(len, n) ==
    {s \in [1..n -> 1..len] : \A i, j \in 1..n : i # j => s[i] # s[j]}

\* df[columns]: the named columns (and the index) of every row.
Project(frame, cols) ==
    [i \in 1..Len(frame) |-> [c \in cols \cup {"idx"} |-> frame[i][c]]]

\* dropna without its subset argument: a null in any column drops the row.
dropna_any_column(frame, subset) ==
    SelectSeq(frame, LAMBDA r : \A c \in DOMAIN r \ {"idx"} : ~isnull(r[c]))

\* df.dropna(subset=...): the rows with no null in the subset, in order.
dropna(frame, subset) ==
    SelectSeq(frame, LAMBDA r : \A c \in subset : ~isnull(r[c]))

\* Lines 59, 62 and 63 assign whole columns; a column operation acts cell by
\* cell, so each is given by what it does to one row.
\* df['Start_Time'] = pd.to_datetime(df['Start_Time'], errors='coerce')
ParseStartTime(r) == [r EXCEPT !.Start_Time = to_datetime(@)]

\* df['Hour'] = df['Start_Time'].dt.hour
AddHour(r) == r @@ ("Hour" :> dt_hour(r.Start_Time))

\* df['DayOfWeek'] = df['Start_Time'].dt.day_name()
AddDayOfWeek(r) == r @@ ("DayOfWeek" :> dt_day_name(r.Start_Time))

\* Step 3 of the script, lines 53-63.
Cleaned(sample) ==
    LET kept == dropna(Project(sample, columns_to_keep), dropna_subset)
    IN  [i \in 1..Len(kept) |-> AddDayOfWeek(AddHour(ParseStartTime(kept[i])))]

(* ------------------------- pandas: aggregation ------------------------- *)

\* Number of rows of frame whose column col holds the value v.
CountOf(frame, col, v) ==
    Cardinality({i \in 1..Len(frame) : frame[i][col] = Some(v)})

\* The non-null values of a column in order of first appearance
\* (Series.unique() without the nulls).
RECURSIVE UniqueFrom(_, _, _, _)
UniqueFrom(frame, col, i, acc) ==
    IF i > Len(frame) THEN acc
    ELSE LET x == frame[i][col]
         IN  IF isnull(x) \/ (\E k \in 1..Len(acc) : acc[k] = x[1])
             THEN UniqueFrom(frame, col, i + 1, acc)
             ELSE UniqueFrom(frame, col, i + 1, Append(acc, x[1]))

Unique(frame, col) == UniqueFrom(frame, col, 1, <<>>)

\* Insert pair p into the descending sequence s behind every pair whose value
\* is at least p's (so equal values keep their order: a stable sort).
RECURSIVE InsertDesc(_, _)
InsertDesc(s, p) ==
    IF s = <<>> THEN <<p>>
    ELSE IF Head(s)[2] >= p[2] THEN <<Head(s)>> \o InsertDesc(Tail(s), p)
         ELSE <<p>> \o s

RECURSIVE SortDescFrom(_, _, _)
SortDescFrom(s, i, acc) ==
    IF i > Len(s) THEN acc ELSE SortDescFrom(s, i + 1, InsertDesc(acc, s[i]))

\* Series.sort_values(ascending=False).
sort_values_desc(s) == SortDescFrom(s, 1, <<>>)

\* Series.value_counts(): one entry per non-null value, sorted by count,
\* largest first; equal counts stay in order of first appearance.
value_counts(frame, col) ==
    LET u == Unique(frame, col)
    IN  sort_values_desc([k \in 1..Len(u) |-> <<u[k], CountOf(frame, col, u[k])>>])

\* nlargest that forgets to cut the result to n entries.
nlargest_uncut(s, n) == sort_values_desc(s)

\* Series.nlargest(n) (keep='first'): the n largest entries, largest first.
nlargest(s, n) ==
    LET sorted == sort_values_desc(s)
    IN  SubSeq(sorted, 1, IF Len(sorted) < n THEN Len(sorted) ELSE n)

\* count() in place of sum(): the non-null cells of each column.
column_counts(frame, cols) ==
    [k \in 1..Len(cols) |->
        <<cols[k], Cardinality({i \in 1..Len(frame) : ~isnull(frame[i][cols[k]])})>>]

\* DataFrame[cols].sum(): per column the sum of its cells, nulls skipped,
\* True counting 1 and False 0.
column_sums(frame, cols) ==
    [k \in 1..Len(cols) |-> <<cols[k], CountOf(frame, cols[k], TRUE)>>]

(* ------------------------- seaborn: countplot -------------------------- *)

\* Ascending sort of a set of integers.
RECURSIVE SortedAsc(_)
SortedAsc(S) ==
    IF S = {} THEN <<>>
    ELSE LET m == CHOOSE x \in S : \A y \in S : x <= y
         IN  <<m>> \o SortedAsc(S \ {m})

Range(s) == {s[k] : k \in 1..Len(s)}

\* The bars of sns.countplot(x=col, data=frame, order=order): one bar per
\* category, its height the number of rows in the category.
Bars(frame, col, cats) ==
    [k \in 1..Len(cats) |-> <<cats[k], CountOf(frame, col, cats[k])>>]

\* countplot that ignores its order argument.
countplot_order_ignored(frame, col, order) == Bars(frame, col, Unique(frame, col))

\* order given: the categories are the order, whatever the data holds.
countplot_ordered(frame, col, order) == Bars(frame, col, order)

\* countplot that leaves a numeric column's categories unsorted.
countplot_numeric_unsorted(frame, col) == Bars(frame, col, Unique(frame, col))

\* no order, numeric column: the values present, ascending.
countplot_numeric(frame, col) ==
    Bars(frame, col, SortedAsc(Range(Unique(frame, col))))

\* no order, string column: the values present, in order of appearance.
countplot_text(frame, col) == Bars(frame, col, Unique(frame, col))

(* ------------------------------ inputs --------------------------------- *)

\* Two timestamps that parse and one that does not.
MON_05 == [days |-> 19359, hh |-> 5]

SUN_23 == [days |-> 19365, hh |-> 23]

BAD_25 == [days |-> 19360, hh |-> 25]

Row(t, lat, lng, sev, w, ss, j, c, ts) ==
    [State |-> Some("OH"), Start_Time |-> t, Start_Lat |-> lat, Start_Lng |-> lng,
     Severity |-> sev, Weather_Condition |-> w, Sunrise_Sunset |-> ss,
     Junction |-> j, Crossing |-> c, Traffic_Signal |-> ts]

BaseRow ==
    Row(Some(MON_05), Some(39), Some(-98), Some(2), Some("Rain"), Some("Day"),
        Some(TRUE), Some(FALSE), Some(FALSE))

\* The CSV rows the tables are built from: complete rows, a row with an
\* unparseable Start_Time, one row per required column with that column null,
\* and a row whose only nulls are in the tolerated columns.
RowPool ==
    { BaseRow,
      Row(Some(SUN_23), Some(40), Some(-97), Some(3), Some("Clear"), Some("Night"),
          Some(FALSE), Some(TRUE), Some(TRUE)),
      Row(Some(BAD_25), Some(41), Some(-96), Some(2), Some("Rain"), Some("Night"),
          Some(TRUE), Some(TRUE), Some(FALSE)),
      [BaseRow EXCEPT !.Start_Time = Null],
      [BaseRow EXCEPT !.Start_Lat = Null],
      [BaseRow EXCEPT !.Start_Lng = Null],
      [BaseRow EXCEPT !.Weather_Condition = Null],
      [BaseRow EXCEPT !.Sunrise_Sunset = Null],
      [BaseRow EXCEPT !.Severity = Null, !.Junction = Null, !.Crossing = Null,
                      !.Traffic_Signal = Null, !.Weather_Condition = Some("Fog")] }

SeqsUpTo(S, n) == UNION {[1..k -> S] : k \in 0..n}

Tables == SeqsUpTo(RowPool, MaxRows)

Conditions ==
    <<"Fair", "Cloudy", "Mostly Cloudy", "Clear", "Partly Cloudy", "Overcast",
      "Light Rain", "Rain", "Fog", "Light Snow", "Haze", "Snow", "Heavy Rain">>

\* Row i of a weather-family sample names either its own condition or the one
\* of an earlier row, so that counts differ, tie, and exceed top_n in number.
WeatherChoices(i) == {Conditions[i], Conditions[(i + 1) \div 2]}

RECURSIVE WeatherSeqs(_)
WeatherSeqs(k) ==
    IF k = 0 THEN {<<>>}
    ELSE {Append(s, w) : s \in WeatherSeqs(k - 1), w \in WeatherChoices(k)}

WeatherRow(w) == [BaseRow EXCEPT !.Weather_Condition = Some(w)]

WeatherTables ==
    UNION {{[i \in 1..k |-> WeatherRow(s[i])] : s \in WeatherSeqs(k)} :
           k \in (MaxSample + 1)..MaxWeatherRows}

\* The samples the cleaning and analysis steps are checked on in SpecAnalysis.
Samples == SeqsUpTo(RowPool, MaxSample) \cup WeatherTables

(* ------------------------------ program -------------------------------- *)

Msg(text, arg) == [text |-> text, arg |-> arg]

MSG_IMPORTED == Msg("Libraries imported successfully.", "")

MSG_LOADING == Msg("Loading data from '{file_path}'...", file_path)

MSG_LOADED == Msg("Dataset loaded successfully.", "")

MSG_SAMPLE == Msg("Using a random sample of {sample_size} records for analysis.", "")

MSG_NOT_FOUND == Msg("Error: '{file_path}' not found.", file_path)

MSG_PLEASE ==
    Msg("Please make sure the 'US_Accidents_March23.csv' file is in the same folder as this script.", "")

MSG_CLEANING == Msg("Starting data cleaning and preprocessing...", "")

MSG_CLEANED == Msg("Data cleaning and preprocessing complete.", "")

MSG_MAPPING == Msg("Generating accident hotspot map... (This may take a moment)", "")

MSG_SAVED == Msg("Map saved successfully as '{map_filename}'.", map_filename)

Init ==
    /\ \/ disk = <<>>
       \/ \E t \in Tables : disk = (file_path :> t)
    /\ stdout = <<MSG_IMPORTED>>
    /\ pc = "load"
    /\ bound = {}
    /\ traceback = Null
    /\ exit_code = Null
    /\ df = <<>>
    /\ df_sample = <<>>
    /\ df_clean = <<>>
    /\ figures = <<>>
    /\ top_weather = <<>>
    /\ road_features_df = <<>>
    /\ heat_data = <<>>

\* The state after the try block (line 44) for a sample that is the whole of
\* its table: the cleaning and analysis steps on samples longer than the
\* scaled sample_size allows.
InitAnalysis ==
    /\ \E t \in Samples :
          /\ disk = (file_path :> t)
          /\ df = read_csv(t)
          /\ df_sample = read_csv(t)
    /\ stdout = <<MSG_IMPORTED, MSG_LOADING, MSG_LOADED, MSG_SAMPLE>>
    /\ pc = "clean"
    /\ bound = {"file_path", "df", "sample_size", "df_sample"}
    /\ traceback = Null
    /\ exit_code = Null
    /\ df_clean = <<>>
    /\ figures = <<>>
    /\ top_weather = <<>>
    /\ road_features_df = <<>>
    /\ heat_data = <<>>

\* Lines 22-30: the try block up to read_csv.  A missing file raises
\* FileNotFoundError, which the except clause of line 40 catches.
Load ==
    /\ pc = "load"
    /\ IF file_path \in DOMAIN disk
       THEN /\ df' = read_csv(disk[file_path])
            /\ stdout' = stdout \o <<MSG_LOADING, MSG_LOADED>>
            /\ bound' = bound \cup {"file_path", "df"}
            /\ pc' = "sample"
       ELSE /\ df' = df
            /\ stdout' = Append(stdout, MSG_LOADING)
            /\ bound' = bound \cup {"file_path"}
            /\ pc' = "except"
    /\ UNCHANGED <<disk, traceback, exit_code, df_sample, df_clean, figures,
                   top_weather, road_features_df, heat_data>>

\* Lines 35-38: df.sample(n=sample_size, random_state=42).  Without
\* replacement a sample larger than the table raises ValueError, which the
\* except clause does not catch: the interpreter prints the traceback and
\* exits with status 1.
Sample ==
    /\ pc = "sample"
    /\ IF Len(df) < sample_size
       THEN /\ traceback' = Some("ValueError")
            /\ exit_code' = Some(1)
            /\ pc' = "crashed"
            /\ bound' = bound \cup {"sample_size"}
            /\ UNCHANGED <<df_sample, stdout>>
       ELSE /\ \E draw \in SampleDraws(Len(df), sample_size) :
                  df_sample' = [k \in 1..sample_size |-> df[draw[k]]]
            /\ stdout' = Append(stdout, MSG_SAMPLE)
            /\ bound' = bound \cup {"sample_size", "df_sample"}
            /\ pc' = "clean"
            /\ UNCHANGED <<traceback, exit_code>>
    /\ UNCHANGED <<disk, df, df_clean, figures, top_weather, road_features_df,
                   heat_data>>

\* The except clause without its exit(): the script runs on to step 3.
HandleFileNotFound_NoExit ==
    /\ pc = "except"
    /\ stdout' = stdout \o <<MSG_NOT_FOUND, MSG_PLEASE>>
    /\ pc' = "clean"
    /\ UNCHANGED <<disk, bound, traceback, exit_code, df, df_sample, df_clean,
                   figures, top_weather, road_features_df, heat_data>>

\* Lines 40-43: the except clause.  exit() with no argument raises
\* SystemExit(None): the process ends with status 0.
HandleFileNotFound ==
    /\ pc = "except"
    /\ stdout' = stdout \o <<MSG_NOT_FOUND, MSG_PLEASE>>
    /\ exit_code' = Some(0)
    /\ pc' = "exited"
    /\ UNCHANGED <<disk, bound, traceback, df, df_sample, df_clean, figures,
                   top_weather, road_features_df, heat_data>>

\* Lines 46-65.
Clean ==
    /\ pc = "clean"
    /\ df_clean' = Cleaned(df_sample)
    /\ stdout' = stdout \o <<MSG_CLEANING, MSG_CLEANED>>
    /\ bound' = bound \cup {"columns_to_keep", "df_clean"}
    /\ pc' = "hour"
    /\ UNCHANGED <<disk, traceback, exit_code, df, df_sample, figures,
                   top_weather, road_features_df, heat_data>>

Show(title, bars) == figures @@ (title :> bars)

\* Lines 71-76.
AnalysisHour ==
    /\ pc = "hour"
    /\ figures' = Show(TITLE_HOUR, countplot_numeric(df_clean, "Hour"))
    /\ pc' = "day"
    /\ UNCHANGED <<disk, stdout, bound, traceback, exit_code, df, df_sample,
                   df_clean, top_weather, road_features_df, heat_data>>

\* Lines 79-86.
AnalysisDay ==
    /\ pc = "day"
    /\ figures' = Show(TITLE_DAY, countplot_ordered(df_clean, "DayOfWeek", day_order))
    /\ bound' = bound \cup {"day_order"}
    /\ pc' = "weather"
    /\ UNCHANGED <<disk, stdout, traceback, exit_code, df, df_sample, df_clean,
                   top_weather, road_features_df, heat_data>>

\* Lines 89-95.
AnalysisWeather ==
    /\ pc = "weather"
    /\ top_weather' = nlargest(value_counts(df_clean, "Weather_Condition"), top_n)
    /\ figures' = Show(TITLE_WEATHER, top_weather')
    /\ bound' = bound \cup {"top_weather"}
    /\ pc' = "daynight"
    /\ UNCHANGED <<disk, stdout, traceback, exit_code, df, df_sample, df_clean,
                   road_features_df, heat_data>>

\* Lines 98-103.
AnalysisDayNight ==
    /\ pc = "daynight"
    /\ figures' = Show(TITLE_DAYNIGHT, countplot_text(df_clean, "Sunrise_Sunset"))
    /\ pc' = "road"
    /\ UNCHANGED <<disk, stdout, bound, traceback, exit_code, df, df_sample,
                   df_clean, top_weather, road_features_df, heat_data>>

\* Lines 107-115.
AnalysisRoad ==
    /\ pc = "road"
    /\ road_features_df' = sort_values_desc(column_sums(df_clean, road_features))
    /\ figures' = Show(TITLE_ROAD, road_features_df')
    /\ bound' = bound \cup {"road_features", "road_features_df"}
    /\ pc' = "map"
    /\ UNCHANGED <<disk, stdout, traceback, exit_code, df, df_sample, df_clean,
                   top_weather, heat_data>>

\* df_clean[['Start_Lat', 'Start_Lng']].dropna().values.tolist()
HeatData(frame) ==
    LET pts == dropna(Project(frame, {"Start_Lat", "Start_Lng"}),
                      {"Start_Lat", "Start_Lng"})
    IN  [i \in 1..Len(pts) |-> <<pts[i].Start_Lat[1], pts[i].Start_Lng[1]>>]

\* Lines 119-135; the script then ends, with status 0.
SaveMap ==
    /\ pc = "map"
    /\ heat_data' = HeatData(df_clean)
    /\ disk' = disk @@ (map_filename :> heat_data')
    /\ stdout' = stdout \o <<MSG_MAPPING, MSG_SAVED>>
    /\ bound' = bound \cup {"heat_data", "map_filename"}
    /\ exit_code' = Some(0)
    /\ pc' = "done"
    /\ UNCHANGED <<traceback, df, df_sample, df_clean, figures, top_weather,
                   road_features_df>>

Next ==
    \/ Load
    \/ Sample
    \/ HandleFileNotFound
    \/ Clean
    \/ AnalysisHour
    \/ AnalysisDay
    \/ AnalysisWeather
    \/ AnalysisDayNight
    \/ AnalysisRoad
    \/ SaveMap

Spec == Init /\ [][Next]_vars

NextAnalysis ==
    \/ Clean
    \/ AnalysisHour
    \/ AnalysisDay
    \/ AnalysisWeather
    \/ AnalysisDayNight
    \/ AnalysisRoad
    \/ SaveMap

SpecAnalysis == InitAnalysis /\ [][NextAnalysis]_vars

(* ------------------------------- claims -------------------------------- *)

WEEKDAYS ==
    <<"Monday", "Tuesday", "Wednesday", "Thursday", "Friday", "Saturday", "Sunday">>

REQUIRED ==
    {"Start_Time", "Start_Lat", "Start_Lng", "Weather_Condition", "Sunrise_Sunset"}

\* The number of rows of a frame that satisfy P.
HowMany(frame, P(_)) == Cardinality({i \in 1..Len(frame) : P(frame[i])})

\* The input file was there when the script started (the script only ever
\* adds map_filename to the disk).
FileMissing == file_path \notin DOMAIN disk

\* The sampled row with index label n.
SampledRow(n) == CHOOSE r \in Range(df_sample) : r.idx = n

\* The position in the sample of the row with index label n.
SampledAt(n) == CHOOSE a \in 1..Len(df_sample) : df_sample[a].idx = n

\* The sampled row's Start_Time is a string that does not parse.
Unparseable(r) == ~isnull(r.Start_Time) /\ isnull(to_datetime(r.Start_Time))

\* The cleaned rows that come from a sampled row whose Start_Time parses.
ParsedRows == SelectSeq(df_clean, LAMBDA r : ~Unparseable(SampledRow(r.idx)))

\* The labels of a Series, in order.
Labels(series) == [k \in 1..Len(series) |-> series[k][1]]

\* The value of a Series under a label, 0 when the label is absent.
ValueAt(series, label) ==
    IF \E k \in 1..Len(series) : series[k][1] = label
    THEN (CHOOSE e \in Range(series) : e[1] = label)[2]
    ELSE 0

\* C1: after the Cleaner step every row of the cleaned table has a non-null
\* Start_Time, Start_Lat, Start_Lng, Weather_Condition and Sunrise_Sunset, an
\* Hour in 0..23 and a DayOfWeek that is one of the seven weekday names, also
\* when the sampled Start_Time was a non-null string that does not parse.
C1_CleanRowsComplete ==
    "df_clean" \in bound =>
        \A i \in 1..Len(df_clean) :
            /\ \A c \in REQUIRED : ~isnull(df_clean[i][c])
            /\ ~isnull(df_clean[i].Hour)
            /\ df_clean[i].Hour[1] \in 0..23
            /\ ~isnull(df_clean[i].DayOfWeek)
            /\ df_clean[i].DayOfWeek[1] \in Range(WEEKDAYS)

\* C2: a sampled row whose Start_Time is non-null but unparseable never stops
\* the pipeline and contributes to none of the five aggregations: every
\* result is what the rows with a parsed Start_Time alone give.
C2_UnparseableRowsExcluded ==
    /\ "df_sample" \in bound => traceback = Null
    /\ TITLE_HOUR \in DOMAIN figures =>
          \A h \in 0..23 :
             ValueAt(figures[TITLE_HOUR], h) =
                HowMany(ParsedRows, LAMBDA r : r.Hour = Some(h))
    /\ TITLE_DAY \in DOMAIN figures =>
          \A k \in 1..7 :
             ValueAt(figures[TITLE_DAY], WEEKDAYS[k]) =
                HowMany(ParsedRows, LAMBDA r : r.DayOfWeek = Some(WEEKDAYS[k]))
    /\ "top_weather" \in bound =>
          \A k \in 1..Len(top_weather) :
             top_weather[k][2] =
                HowMany(ParsedRows,
                        LAMBDA r : r.Weather_Condition = Some(top_weather[k][1]))
    /\ TITLE_DAYNIGHT \in DOMAIN figures =>
          \A k \in 1..Len(figures[TITLE_DAYNIGHT]) :
             figures[TITLE_DAYNIGHT][k][2] =
                HowMany(ParsedRows,
                        LAMBDA r : r.Sunrise_Sunset = Some(figures[TITLE_DAYNIGHT][k][1]))
    /\ "road_features_df" \in bound =>
          \A k \in 1..Len(road_features_df) :
             road_features_df[k][2] =
                HowMany(ParsedRows, LAMBDA r : r[road_features_df[k][1]] = Some(TRUE))

\* C3: for every loaded table the Sampler does not fail and returns
\* min(sample_size, number of rows) distinct rows of the table; a table with
\* fewer rows than sample_size is returned whole and cleaning goes on.
C3_SamplerTakesMin ==
    ("df" \in bound /\ pc # "sample") =>
        /\ traceback = Null
        /\ "df_sample" \in bound
        /\ Len(df_sample) = (IF Len(df) < sample_size THEN Len(df) ELSE sample_size)
        /\ \A i \in 1..Len(df_sample) : df_sample[i] \in Range(df)
        /\ \A i, j \in 1..Len(df_sample) :
              i # j => df_sample[i].idx # df_sample[j].idx

\* C4: when the input file does not exist the script prints the missing-file
\* message naming the file and halts: no sampling, cleaning, aggregation,
\* chart or write of the HTML map happens.
C4_MissingFileHalts ==
    FileMissing =>
        /\ pc \in {"load", "except", "exited"}
        /\ bound \subseteq {"file_path"}
        /\ df = <<>> /\ df_sample = <<>> /\ df_clean = <<>>
        /\ figures = <<>> /\ top_weather = <<>> /\ road_features_df = <<>>
        /\ heat_data = <<>>
        /\ map_filename \notin DOMAIN disk
        /\ pc = "exited" =>
              /\ \E k \in 1..Len(stdout) :
                    /\ stdout[k].arg = "US_Accidents_March23.csv"
                    /\ stdout[k].text = "Error: '{file_path}' not found."
              /\ traceback = Null

C4_Witness == FileMissing /\ pc = "exited"

\* C5: the process exit code is non-zero when the input file is missing and
\* zero otherwise.
C5_ExitCode ==
    ~isnull(exit_code) => (exit_code[1] # 0 <=> FileMissing)

\* C6: the Cleaner keeps a sampled row if and only if none of its Start_Time,
\* Start_Lat, Start_Lng, Weather_Condition and Sunrise_Sunset is null, nulls in
\* Severity, Junction, Crossing and Traffic_Signal being tolerated; the kept
\* rows stay in order and the sampled table is left as it was.
C6_CleanerKeepsExactlyCompleteRows ==
    "df_clean" \in bound =>
        /\ {df_clean[i].idx : i \in 1..Len(df_clean)} =
              {df_sample[i].idx : i \in
                  {j \in 1..Len(df_sample) :
                      \A c \in REQUIRED : ~isnull(df_sample[j][c])}}
        /\ Len(df_clean) = HowMany(df_sample,
                                   LAMBDA r : \A c \in REQUIRED : ~isnull(r[c]))
        /\ \A i \in 1..(Len(df_clean) - 1) :
              SampledAt(df_clean[i].idx) < SampledAt(df_clean[i + 1].idx)
        /\ df_sample = [i \in 1..Len(disk[file_path]) |->
                           disk[file_path][i] @@ ("idx" :> i - 1)]

\* Three sampled rows, one with a null Weather_Condition and one with nulls
\* only in the tolerated columns: two cleaned rows, the tolerated one among
\* them.
C6_Witness ==
    /\ "df_clean" \in bound
    /\ Len(df_sample) = 3
    /\ HowMany(df_sample, LAMBDA r : isnull(r.Weather_Condition)) = 1
    /\ HowMany(df_sample, LAMBDA r : \E c \in REQUIRED \ {"Weather_Condition"} :
                                        isnull(r[c])) = 0
    /\ Len(df_clean) = 2
    /\ \E i \in 1..2 : /\ isnull(df_clean[i].Severity)
                       /\ isnull(df_clean[i].Junction)
                       /\ isnull(df_clean[i].Crossing)
                       /\ isnull(df_clean[i].Traffic_Signal)

\* C7: the ByDayOfWeek result has exactly the keys Monday, Tuesday, Wednesday,
\* Thursday, Friday, Saturday, Sunday in that order, each with the number of
\* cleaned rows of that DayOfWeek, also when some weekdays never occur.
C7_DayOfWeekCanonical ==
    TITLE_DAY \in DOMAIN figures =>
        /\ Labels(figures[TITLE_DAY]) = WEEKDAYS
        /\ \A k \in 1..7 :
              figures[TITLE_DAY][k][2] =
                 HowMany(df_clean, LAMBDA r : r.DayOfWeek = Some(WEEKDAYS[k]))

\* A cleaned table with rows on Sunday and none on Monday, Sunday's row
\* coming first in it.
C7_Witness ==
    /\ TITLE_DAY \in DOMAIN figures
    /\ Len(df_clean) = 2
    /\ df_clean[1].DayOfWeek = Some("Sunday")
    /\ df_clean[2].DayOfWeek = Some("Monday")
    /\ ValueAt(figures[TITLE_DAY], "Tuesday") = 0
    /\ ValueAt(figures[TITLE_DAY], "Sunday") = 1

\* C8 as stated: the ByHour result has all 24 buckets 0..23, each with the
\* number of cleaned rows of that Hour, 0 for an hour no row has.
C8_AllHourBuckets ==
    TITLE_HOUR \in DOMAIN figures =>
        /\ Len(figures[TITLE_HOUR]) = 24
        /\ \A h \in 0..23 :
              figures[TITLE_HOUR][h + 1] =
                 <<h, HowMany(df_clean, LAMBDA r : r.Hour = Some(h))>>

\* C8 as amended: the ByHour result has one bucket for each hour that some
\* cleaned row has, in ascending order of the hour, holding the number of
\* cleaned rows with that Hour; an hour that no row has has no bucket, so
\* every hour 0..23 reads as its number of rows, 0 when absent.
C8_HourBucketsOfPresentHours ==
    TITLE_HOUR \in DOMAIN figures =>
        LET bars == figures[TITLE_HOUR] IN
        /\ Range(Labels(bars)) =
              {h \in 0..23 : \E i \in 1..Len(df_clean) : df_clean[i].Hour = Some(h)}
        /\ \A j, k \in 1..Len(bars) : j < k => bars[j][1] < bars[k][1]
        /\ \A h \in 0..23 :
              ValueAt(bars, h) = HowMany(df_clean, LAMBDA r : r.Hour = Some(h))

\* Two cleaned rows, both at Hour 5: the one bucket 5 holds 2.
C8_WitnessSameHour ==
    /\ TITLE_HOUR \in DOMAIN figures
    /\ Len(df_clean) = 2
    /\ df_clean[1].Hour = Some(5)
    /\ df_clean[2].Hour = Some(5)
    /\ figures[TITLE_HOUR] = << <<5, 2>> >>

\* C9 as stated: ByWeather returns min(10, number of distinct conditions)
\* entries, each with the count of cleaned rows of its condition, sorted
\* strictly descending by count, no omitted condition having a higher count
\* than a returned one.
C9_TopWeatherStrictlyDescending ==
    "top_weather" \in bound =>
        LET conds == {df_clean[i].Weather_Condition[1] : i \in 1..Len(df_clean)}
            cnt(w) == HowMany(df_clean, LAMBDA r : r.Weather_Condition = Some(w))
        IN  /\ Len(top_weather) <= 10
            /\ Len(top_weather) =
                  (IF Cardinality(conds) < 10 THEN Cardinality(conds) ELSE 10)
            /\ \A k \in 1..Len(top_weather) :
                  /\ top_weather[k][1] \in conds
                  /\ top_weather[k][2] = cnt(top_weather[k][1])
            /\ \A j, k \in 1..Len(top_weather) :
                  j < k => top_weather[j][2] > top_weather[k][2]
            /\ \A w \in conds \ Range(Labels(top_weather)) :
                  \A k \in 1..Len(top_weather) : cnt(w) <= top_weather[k][2]

\* C9 as amended: the same, the entries being distinct conditions sorted in
\* non-increasing order of count (equal counts may follow one another).
C9_TopWeatherNonIncreasing ==
    "top_weather" \in bound =>
        LET conds == {df_clean[i].Weather_Condition[1] : i \in 1..Len(df_clean)}
            cnt(w) == HowMany(df_clean, LAMBDA r : r.Weather_Condition = Some(w))
        IN  /\ Len(top_weather) <= 10
            /\ Len(top_weather) =
                  (IF Cardinality(conds) < 10 THEN Cardinality(conds) ELSE 10)
            /\ \A k \in 1..Len(top_weather) :
                  /\ top_weather[k][1] \in conds
                  /\ top_weather[k][2] = cnt(top_weather[k][1])
            /\ \A j, k \in 1..Len(top_weather) :
                  j < k => /\ top_weather[j][2] >= top_weather[k][2]
                           /\ top_weather[j][1] # top_weather[k][1]
            /\ \A w \in conds \ Range(Labels(top_weather)) :
                  \A k \in 1..Len(top_weather) : cnt(w) <= top_weather[k][2]

\* More than ten distinct conditions, with different counts among the ten
\* returned and a tie between a returned and an omitted condition.
C9_Witness ==
    /\ "top_weather" \in bound
    /\ Cardinality({df_clean[i].Weather_Condition[1] : i \in 1..Len(df_clean)}) > 10
    /\ Len(top_weather) = 10
    /\ top_weather[1][2] > top_weather[10][2]
    /\ \E i \in 1..Len(df_clean) :
          /\ df_clean[i].Weather_Condition[1] \notin Range(Labels(top_weather))
          /\ HowMany(df_clean, LAMBDA r : r.Weather_Condition =
                                             df_clean[i].Weather_Condition)
                = top_weather[10][2]

\* C10: the ByRoadFeature value of each of Junction, Crossing and
\* Traffic_Signal is the number of cleaned rows in which the feature is true,
\* nulls in those columns included in the table, and the three entries come
\* in descending order of value.
C10_RoadFeatureSums ==
    "road_features_df" \in bound =>
        /\ Len(road_features_df) = 3
        /\ Range(Labels(road_features_df)) = {"Junction", "Crossing", "Traffic_Signal"}
        /\ \A k \in 1..3 :
              road_features_df[k][2] =
                 HowMany(df_clean, LAMBDA r : r[road_features_df[k][1]] = Some(TRUE))
        /\ \A j, k \in 1..3 : j < k => road_features_df[j][2] >= road_features_df[k][2]

\* A cleaned table with a null Junction, Crossing and Traffic_Signal in one
\* row, in which Junction has the smallest sum and so comes last.
C10_Witness ==
    /\ "road_features_df" \in bound
    /\ \E i \in 1..Len(df_clean) :
          /\ isnull(df_clean[i].Junction)
          /\ isnull(df_clean[i].Crossing)
          /\ isnull(df_clean[i].Traffic_Signal)
    /\ road_features_df[3] = <<"Junction", 0>>
    /\ road_features_df[1][2] = 1

====
